---- MODULE Spec2Model ----
(***************************************************************************)
(* Model of the OpenMoji -> RGB565 asset converters:                       *)
(*   convert_emojis_pure.py  (SVG converter: selection, rasterizer,        *)
(*                            centering pass, quantizer, header emitter)   *)
(*   convert_pngs_to_array.py (PNG converter: conversion loop, emitter)    *)
(*                                                                         *)
(* Emoji codes are modelled as sequences of one-character strings, so that *)
(* upper(), strip(), split("-"), count("-"), len() and string ordering are *)
(* computed character by character as Python computes them.               *)
(***************************************************************************)
EXTENDS Integers, Sequences, FiniteSets, TLC

VARIABLES
    pc,              \* position inside main()
    svg_dir_exists,  \* Path(args.svg_dir).exists()
    files,           \* stems of the *.svg files on disk (as spelled on disk)
    case_sensitive,  \* whether the file system distinguishes letter case
    count_arg,       \* args.count
    max_faces_arg,   \* args.max_faces
    target_count, max_faces, available, selected, seen, face_count,
    order,           \* sorted(available, key=sort_key), the auto-fill loop's list
    idx,             \* loop index of the loop main() is in (1-based)
    emoji_codes, arrays,
    attempted,       \* history: the identifiers whose conversion was attempted
    exit_status,     \* "none" while running, then the process's exit status
    header,          \* what the emitter wrote: emoji_arrays length, NUM_EMOJIS
    png_dir_exists, png_files, ext_idx,   \* convert_pngs_to_array.py
    drawing, img, centered, recentered, out, stage   \* raster pipeline

mainVars == << pc, svg_dir_exists, files, case_sensitive, count_arg, max_faces_arg,
               target_count, max_faces, available, selected, seen, face_count,
               order, idx, emoji_codes, arrays, attempted, exit_status, header >>
pngVars == << png_dir_exists, png_files, ext_idx >>
rasterVars == << drawing, img, centered, recentered, out, stage >>
vars == << mainVars, pngVars, rasterVars >>

---------------------------------------------------------------------------
(* Characters and strings                                                  *)

\* The characters that occur in file stems, in ASCII order.
Chars == << " ", "-", "0", "1", "2", "3", "4", "5", "6", "7", "8", "9",
            "A", "B", "C", "D", "E", "F", "a", "b", "c", "d", "e", "f" >>

Ord(ch) == CHOOSE i \in 1..Len(Chars) : Chars[i] = ch

UpperChar(ch) ==
    CASE ch = "a" -> "A" [] ch = "b" -> "B" [] ch = "c" -> "C"
      [] ch = "d" -> "D" [] ch = "e" -> "E" [] ch = "f" -> "F"
      [] OTHER -> ch

LowerChar(ch) ==
    CASE ch = "A" -> "a" [] ch = "B" -> "b" [] ch = "C" -> "c"
      [] ch = "D" -> "d" [] ch = "E" -> "e" [] ch = "F" -> "f"
      [] OTHER -> ch

\* str.upper(), str.lower()
Upper(s) == [i \in 1..Len(s) |-> UpperChar(s[i])]
Lower(s) == [i \in 1..Len(s) |-> LowerChar(s[i])]

\* str.strip(): leading and trailing white space removed
RECURSIVE LStrip(_)
LStrip(s) == IF s # << >> /\ Head(s) = " " THEN LStrip(Tail(s)) ELSE s
RECURSIVE RStrip(_)
RStrip(s) == IF s # << >> /\ s[Len(s)] = " " THEN RStrip(SubSeq(s, 1, Len(s) - 1)) ELSE s
Strip(s) == RStrip(LStrip(s))

\* str.count("-")
CountDash(s) == Cardinality({i \in 1..Len(s) : s[i] = "-"})

\* Python's s < t on strings: lexicographic by code point
RECURSIVE StrLess(_, _)
StrLess(s, t) ==
    IF t = << >> THEN FALSE
    ELSE IF s = << >> THEN TRUE
    ELSE IF Head(s) # Head(t) THEN Ord(Head(s)) < Ord(Head(t))
    ELSE StrLess(Tail(s), Tail(t))

\* The value of one hexadecimal digit, -1 for any other character.
HexVal(ch) ==
    LET u == UpperChar(ch)
        digits == << "0", "1", "2", "3", "4", "5", "6", "7", "8", "9",
                     "A", "B", "C", "D", "E", "F" >>
    IN IF \E i \in 1..16 : digits[i] = u
       THEN (CHOOSE i \in 1..16 : digits[i] = u) - 1
       ELSE -1

\* code.split("-")[0]
RECURSIVE FirstSegment(_)
FirstSegment(s) ==
    IF s = << >> \/ Head(s) = "-" THEN << >>
    ELSE << Head(s) >> \o FirstSegment(Tail(s))

RECURSIVE HexFold(_, _)
HexFold(s, acc) == IF s = << >> THEN acc ELSE HexFold(Tail(s), 16 * acc + HexVal(Head(s)))

\* _first_segment_hex: int(first, 16), and 0 when int() raises
_first_segment_hex(code) ==
    LET first == FirstSegment(code)
    IN IF first = << >> \/ \E i \in 1..Len(first) : HexVal(first[i]) < 0
       THEN 0
       ELSE HexFold(first, 0)

---------------------------------------------------------------------------
(* Emoji selection helpers                                                 *)

FACE_SEED ==
    << <<"1","F","6","0","2">>, <<"1","F","9","2","3">>, <<"1","F","6","0","D">>,
       <<"1","F","9","7","0">>, <<"1","F","6","0","A">>, <<"1","F","6","0","E">>,
       <<"1","F","6","0","9">>, <<"1","F","6","1","8">>, <<"1","F","6","1","C">>,
       <<"1","F","6","2","D">>, <<"1","F","9","1","4">>, <<"1","F","6","4","4">> >>

FUN_SEED ==
    << <<"2","7","6","4","-","F","E","0","F">>, <<"1","F","4","9","B">>, <<"1","F","4","9","A">>,
       <<"1","F","4","9","9">>, <<"1","F","4","9","C">>, <<"1","F","5","A","4">>,
       <<"1","F","4","9","6">>, <<"1","F","4","9","5">>, <<"1","F","4","9","E">>,
       <<"1","F","4","9","4">>, <<"1","F","4","8","B">>, <<"1","F","4","A","5">>,
       <<"1","F","4","A","3">>, <<"1","F","4","A","9">>, <<"2","7","0","5">>,
       <<"2","7","4","C">>, <<"2","7","5","3">>, <<"2","7","5","7">>,
       <<"2","6","A","0","-","F","E","0","F">>, <<"1","F","6","A","B">>, <<"1","F","6","A","8">>,
       <<"1","F","4","A","1">>, <<"2","7","2","8">>, <<"1","F","5","2","5">>,
       <<"1","F","4","A","F">>, <<"1","F","4","4","D">>, <<"1","F","4","4","E">>,
       <<"1","F","4","4","F">>, <<"1","F","6","4","F">>, <<"1","F","9","1","D">>,
       <<"1","F","9","1","8">>, <<"2","7","0","A">>, <<"1","F","4","4","C">>,
       <<"1","F","9","1","E">>, <<"2","6","B","D">>, <<"1","F","3","C","0">>,
       <<"1","F","3","C","8">>, <<"2","6","B","E">>, <<"1","F","3","B","E">>,
       <<"1","F","3","D","0">>, <<"1","F","9","4","E">>, <<"1","F","9","4","F">>,
       <<"1","F","3","B","2">>, <<"1","F","3","A","E">>, <<"1","F","3","A","F">>,
       <<"1","F","3","C","6">>, <<"1","F","9","4","7">>, <<"1","F","3","8","9">>,
       <<"1","F","3","8","A">>, <<"1","F","9","7","3">>, <<"1","F","3","7","E">>,
       <<"1","F","3","8","1">>, <<"1","F","3","8","E">>, <<"1","F","3","B","6">>,
       <<"1","F","3","A","7">>, <<"1","F","3","5","5">>, <<"1","F","3","5","4">>,
       <<"1","F","3","5","F">>, <<"1","F","3","5","7">>, <<"1","F","3","7","2">>,
       <<"1","F","3","6","6">>, <<"1","F","3","6","A">>, <<"1","F","3","7","0">>,
       <<"1","F","3","6","D">>, <<"1","F","3","7","F">>, <<"1","F","9","6","A">>,
       <<"1","F","9","C","0">>, <<"2","6","1","5">>, <<"1","F","3","7","A">>,
       <<"1","F","3","7","7">>, <<"1","F","3","7","8">>, <<"1","F","4","3","6">>,
       <<"1","F","4","3","1">>, <<"1","F","9","8","A">>, <<"1","F","9","8","1">>,
       <<"1","F","9","8","4">>, <<"1","F","4","3","8">>, <<"1","F","4","1","F">>,
       <<"1","F","4","3","3">>, <<"1","F","4","0","D">>, <<"1","F","3","3","B">>,
       <<"1","F","3","3","9">>, <<"1","F","3","4","0">>, <<"1","F","6","9","7">>,
       <<"1","F","6","9","5">>, <<"1","F","6","F","4">>, <<"1","F","6","A","2">>,
       <<"2","7","0","8","-","F","E","0","F">>, <<"1","F","6","8","0">>, <<"1","F","6","8","1">>,
       <<"1","F","3","E","0">>, <<"1","F","3","0","D">>, <<"1","F","3","0","E">>,
       <<"1","F","3","0","F">>, <<"1","F","4","F","1">>, <<"1","F","4","B","B">>,
       <<"1","F","4","F","A">>, <<"1","F","4","F","7">>, <<"1","F","5","0","A">>,
       <<"1","F","4","A","4">>, <<"2","3","F","0">>, <<"1","F","5","1","4">>,
       <<"1","F","4","B","0">>, <<"1","F","5","1","1">> >>

\* 0x1F600 <= v <= 0x1F64F, 0x1F910 <= v <= 0x1F92F, 0x1F930 <= v <= 0x1F9AF
_is_face_like(code) ==
    LET v == _first_segment_hex(code)
    IN \/ (128512 <= v /\ v <= 128591)
       \/ (129296 <= v /\ v <= 129327)
       \/ (129328 <= v /\ v <= 129455)

\* v >= 0x2300
_is_reasonable_autofill(code) == _first_segment_hex(code) >= 8960

\* _list_available_emoji_codes: sorted(set(stem.upper())); main() keeps it as a set
_list_available_emoji_codes(stems) == {Upper(s) : s \in stems}

\* sort_key(a) < sort_key(b), sort_key(c) = (c.count("-"), len(c), c)
SortKeyLess(a, b) ==
    \/ CountDash(a) < CountDash(b)
    \/ CountDash(a) = CountDash(b) /\ Len(a) < Len(b)
    \/ CountDash(a) = CountDash(b) /\ Len(a) = Len(b) /\ StrLess(a, b)

\* sorted(available, key=sort_key)
RECURSIVE SortedByKey(_)
SortedByKey(S) ==
    IF S = {} THEN << >>
    ELSE LET m == CHOOSE x \in S : \A y \in S \ {x} : SortKeyLess(x, y)
         IN << m >> \o SortedByKey(S \ {m})

---------------------------------------------------------------------------
(* convert_emojis_pure.py: main()                                          *)

\* Bounds of the model: the largest --count and --max-faces tried.
MaxCount == 3
MaxFaces == 2

\* The file stems the source directory may hold (any subset of them).
Stems ==
    { <<"1","F","6","0","2">>,                      \* in FACE_SEED
      <<"1","F","6","0","0">>,                      \* face-like, in no seed
      <<"1","F","6","4","F">>,                      \* in FUN_SEED and face-like
      <<"2","7","6","4","-","F","E","0","F">>,      \* in FUN_SEED
      <<"1","F","4","A","9">>,                      \* in FUN_SEED
      <<"1","f","3","0","0">>,                      \* lower-case on disk, in no seed
      <<"0","0","A","9">> }                         \* first segment below 0x2300

\* add() without the "c in seen" test.
add_noSeen(code, sel, sn, fc, avail, maxf) ==
    LET c == Strip(Upper(code))
        same == [selected |-> sel, seen |-> sn, face_count |-> fc]
    IN IF c = << >> THEN same
       ELSE IF c \notin avail THEN same
       ELSE IF _is_face_like(c) /\ fc >= maxf THEN same
       ELSE [selected |-> Append(sel, c),
             seen |-> sn \cup {c},
             face_count |-> IF _is_face_like(c) THEN fc + 1 ELSE fc]

\* add() with the face cap tested with > instead of >=.
add_capOffByOne(code, sel, sn, fc, avail, maxf) ==
    LET c == Strip(Upper(code))
        same == [selected |-> sel, seen |-> sn, face_count |-> fc]
    IN IF c = << >> \/ c \in sn THEN same
       ELSE IF c \notin avail THEN same
       ELSE IF _is_face_like(c) /\ fc > maxf THEN same
       ELSE [selected |-> Append(sel, c),
             seen |-> sn \cup {c},
             face_count |-> IF _is_face_like(c) THEN fc + 1 ELSE fc]

\* The closure add() inside main(): the selection state after add(code).
add(code, sel, sn, fc, avail, maxf) ==
    LET c == Strip(Upper(code))
        same == [selected |-> sel, seen |-> sn, face_count |-> fc]
    IN IF c = << >> \/ c \in sn THEN same
       ELSE IF c \notin avail THEN same
       ELSE IF _is_face_like(c) /\ fc >= maxf THEN same
       ELSE [selected |-> Append(sel, c),
             seen |-> sn \cup {c},
             face_count |-> IF _is_face_like(c) THEN fc + 1 ELSE fc]

\* svg_file.exists() for svg_dir / f"{code}.svg"
SvgFileExists(code) ==
    IF case_sensitive THEN code \in files
    ELSE \E s \in files : Upper(s) = Upper(code)

\* array_name = f"emoji_{emoji_code.lower()}"
ArrayName(code) == << "emoji_" >> \o Lower(code)

Max(a, b) == IF a >= b THEN a ELSE b

\* The generated header, reduced to the array names in file order, the length
\* declared for emoji_arrays and the value of NUM_EMOJIS.
NoHeader == [written |-> FALSE, names |-> << >>, emoji_arrays_len |-> 0, NUM_EMOJIS |-> 0]
HeaderOf(arrs) == [written |-> TRUE, names |-> arrs, emoji_arrays_len |-> Len(arrs),
                   NUM_EMOJIS |-> Len(arrs)]

\* selected[:target_count]
Take(s, n) == SubSeq(s, 1, IF Len(s) < n THEN Len(s) ELSE n)

pngIdle == png_dir_exists = FALSE /\ png_files = {} /\ ext_idx = 0
rasterIdle ==
    /\ drawing = "none" /\ img = "none" /\ centered = "none"
    /\ recentered = "none" /\ out = "none" /\ stage = "idle"

Init ==
    /\ pc = "start"
    /\ svg_dir_exists \in BOOLEAN
    /\ files \in SUBSET Stems
    /\ case_sensitive \in BOOLEAN
    /\ svg_dir_exists = FALSE => (files = {} /\ case_sensitive)
    /\ count_arg \in 0..MaxCount
    /\ max_faces_arg \in 0..MaxFaces
    /\ target_count = 0 /\ max_faces = 0
    /\ available = {} /\ selected = << >> /\ seen = {} /\ face_count = 0
    /\ order = << >> /\ idx = 0
    /\ emoji_codes = << >> /\ arrays = << >> /\ attempted = << >>
    /\ exit_status = "none"
    /\ header = NoHeader
    /\ pngIdle /\ rasterIdle

\* Lines 516-539: the directory check, then the set-up of the selection.
CheckDir ==
    /\ pc = "start"
    /\ IF ~svg_dir_exists
       THEN /\ exit_status' = 1
            /\ pc' = "done"
            /\ UNCHANGED << target_count, max_faces, available, idx >>
       ELSE /\ target_count' = Max(1, count_arg)
            /\ max_faces' = Max(0, max_faces_arg)
            /\ available' = _list_available_emoji_codes(files)
            /\ pc' = "face_seed"
            /\ idx' = 1
            /\ UNCHANGED exit_status
    /\ UNCHANGED << svg_dir_exists, files, case_sensitive, count_arg, max_faces_arg,
                    selected, seen, face_count, order, emoji_codes, arrays,
                    attempted, header, pngVars, rasterVars >>

selUnchanged ==
    UNCHANGED << svg_dir_exists, files, case_sensitive, count_arg, max_faces_arg,
                 target_count, max_faces, available, emoji_codes, arrays,
                 attempted, exit_status, header, pngVars, rasterVars >>

\* Lines 555-559: one iteration of "for c in FACE_SEED".
FaceSeedStep ==
    /\ pc = "face_seed"
    /\ LET r == add(FACE_SEED[idx], selected, seen, face_count, available, max_faces)
       IN /\ selected' = r.selected
          /\ seen' = r.seen
          /\ face_count' = r.face_count
          /\ IF Len(r.selected) >= target_count
             THEN pc' = "slice" /\ idx' = 0
             ELSE IF idx < Len(FACE_SEED)
             THEN pc' = "face_seed" /\ idx' = idx + 1
             ELSE pc' = "fun_seed" /\ idx' = 1
    /\ UNCHANGED order
    /\ selUnchanged

\* Lines 561-574: one iteration of "for c in FUN_SEED"; leaving the loop short of
\* the target sorts the available codes for the auto-fill loop.
FunSeedStep ==
    /\ pc = "fun_seed"
    /\ LET r == add(FUN_SEED[idx], selected, seen, face_count, available, max_faces)
       IN /\ selected' = r.selected
          /\ seen' = r.seen
          /\ face_count' = r.face_count
          /\ IF Len(r.selected) >= target_count
             THEN pc' = "slice" /\ idx' = 0 /\ UNCHANGED order
             ELSE IF idx < Len(FUN_SEED)
             THEN pc' = "fun_seed" /\ idx' = idx + 1 /\ UNCHANGED order
             ELSE /\ order' = SortedByKey(available)
                  /\ IF available = {}
                     THEN pc' = "slice" /\ idx' = 0
                     ELSE pc' = "autofill" /\ idx' = 1
    /\ selUnchanged

\* Lines 574-579: one iteration of "for c in sorted(available, key=sort_key)".
AutofillStep ==
    /\ pc = "autofill"
    /\ LET c == order[idx]
           r == add(c, selected, seen, face_count, available, max_faces)
           next == IF idx < Len(order) THEN "autofill" ELSE "slice"
       IN IF Len(selected) >= target_count
          THEN /\ pc' = "slice" /\ idx' = 0
               /\ UNCHANGED << selected, seen, face_count >>
          ELSE IF ~_is_reasonable_autofill(c)
          THEN /\ pc' = next /\ idx' = (IF next = "slice" THEN 0 ELSE idx + 1)
               /\ UNCHANGED << selected, seen, face_count >>
          ELSE /\ selected' = r.selected
               /\ seen' = r.seen
               /\ face_count' = r.face_count
               /\ pc' = next /\ idx' = (IF next = "slice" THEN 0 ELSE idx + 1)
    /\ UNCHANGED order
    /\ selUnchanged

\* Lines 581-584: emoji_codes = selected[:target_count], and the empty check.
Slice ==
    /\ pc = "slice"
    /\ emoji_codes' = Take(selected, target_count)
    /\ IF emoji_codes' = << >>
       THEN exit_status' = 1 /\ pc' = "done" /\ idx' = 0
       ELSE UNCHANGED exit_status /\ pc' = "convert" /\ idx' = 1
    /\ UNCHANGED << svg_dir_exists, files, case_sensitive, count_arg, max_faces_arg,
                    target_count, max_faces, available, selected, seen, face_count,
                    order, arrays, attempted, header, pngVars, rasterVars >>

\* Lines 586-604: one iteration of the conversion loop. A missing file is skipped;
\* parsing, rendering, centering, the preview and the quantizer either all succeed
\* or one of them raises, which the except clause swallows.
ConvertStep ==
    /\ pc = "convert"
    /\ LET code == emoji_codes[idx]
       IN /\ attempted' = Append(attempted, code)
          /\ IF ~SvgFileExists(code)
             THEN UNCHANGED arrays
             ELSE \E raised \in BOOLEAN :
                    arrays' = IF raised THEN arrays ELSE Append(arrays, ArrayName(code))
    /\ IF idx < Len(emoji_codes)
       THEN pc' = "convert" /\ idx' = idx + 1
       ELSE pc' = "emit" /\ idx' = 0
    /\ UNCHANGED << svg_dir_exists, files, case_sensitive, count_arg, max_faces_arg,
                    target_count, max_faces, available, selected, seen, face_count,
                    order, emoji_codes, exit_status, header, pngVars, rasterVars >>

\* Lines 606-629: the header is written from arrays, and main() returns 0.
Emit ==
    /\ pc = "emit"
    /\ header' = HeaderOf(arrays)
    /\ exit_status' = 0
    /\ pc' = "done"
    /\ UNCHANGED << svg_dir_exists, files, case_sensitive, count_arg, max_faces_arg,
                    target_count, max_faces, available, selected, seen, face_count,
                    order, idx, emoji_codes, arrays, attempted, pngVars, rasterVars >>

Next == CheckDir \/ FaceSeedStep \/ FunSeedStep \/ AutofillStep \/ Slice
           \/ ConvertStep \/ Emit

Spec == Init /\ [][Next]_vars

---------------------------------------------------------------------------
(* convert_pngs_to_array.py: main()                                        *)

POPULAR_EMOJIS ==
    << <<"1","F","6","0","0">>, <<"1","F","6","0","1">>, <<"1","F","6","0","2">>,
       <<"1","F","6","0","3">>, <<"1","F","6","0","4">>, <<"1","F","6","0","5">>,
       <<"1","F","6","0","6">>, <<"1","F","6","0","9">>, <<"1","F","6","0","A">>,
       <<"1","F","6","0","D">>, <<"1","F","6","0","E">>, <<"1","F","6","0","F">>,
       <<"1","F","6","1","8">>, <<"1","F","6","1","A">>, <<"1","F","6","1","B">>,
       <<"1","F","6","1","C">>, <<"1","F","6","1","D">>, <<"1","F","6","1","E">>,
       <<"1","F","6","2","0">>, <<"1","F","6","2","1">>, <<"1","F","6","2","2">>,
       <<"1","F","6","2","3">>, <<"1","F","6","2","4">>, <<"1","F","6","2","5">>,
       <<"1","F","6","2","8">>, <<"1","F","6","2","9">>, <<"1","F","6","2","A">>,
       <<"1","F","6","2","D">>, <<"1","F","6","3","1">>, <<"1","F","6","3","2">> >>

\* for ext in ['.png', '.PNG']
Exts == << ".png", ".PNG" >>

\* The PNG files the directory in use may hold (any subset of them), as spelled
\* on disk.
PngNames ==
    { << <<"1","F","6","0","0">>, ".png" >>,
      << <<"1","F","6","0","0">>, ".PNG" >>,
      << <<"1","F","6","0","1">>, ".png" >>,
      << <<"1","F","6","0","3">>, ".PNG" >>,
      << <<"1","F","6","3","2">>, ".png" >> }

\* png_file.exists() for png_dir / f"{emoji_code}{ext}"
PngFileExists(code, ext) ==
    IF case_sensitive THEN << code, ext >> \in png_files
    ELSE \E f \in png_files : f[1] = code

InitPng ==
    /\ pc = "png_loop"
    /\ png_dir_exists \in BOOLEAN
    /\ png_files \in SUBSET PngNames
    /\ case_sensitive \in BOOLEAN
    /\ idx = 1 /\ ext_idx = 1
    /\ arrays = << >> /\ attempted = << >>
    /\ exit_status = "none" /\ header = NoHeader
    /\ svg_dir_exists = FALSE /\ files = {}
    /\ count_arg = 0 /\ max_faces_arg = 0 /\ target_count = 0 /\ max_faces = 0
    /\ available = {} /\ selected = << >> /\ seen = {} /\ face_count = 0
    /\ order = << >> /\ emoji_codes = << >>
    /\ rasterIdle

pngUnchanged ==
    UNCHANGED << svg_dir_exists, files, case_sensitive, count_arg, max_faces_arg,
                 target_count, max_faces, available, selected, seen, face_count,
                 order, emoji_codes, exit_status, header,
                 png_dir_exists, png_files, rasterVars >>

\* Lines 68-83: one iteration of "for ext in ['.png', '.PNG']" for the identifier
\* POPULAR_EMOJIS[idx]. Only a successful conversion breaks out of the inner loop.
PngStep ==
    /\ pc = "png_loop"
    /\ LET code == POPULAR_EMOJIS[idx]
           nextId == /\ ext_idx' = 1
                     /\ IF idx < Len(POPULAR_EMOJIS)
                        THEN pc' = "png_loop" /\ idx' = idx + 1
                        ELSE pc' = "png_emit" /\ idx' = 0
           nextExt == IF ext_idx < Len(Exts)
                      THEN pc' = "png_loop" /\ idx' = idx /\ ext_idx' = ext_idx + 1
                      ELSE nextId
       IN IF PngFileExists(code, Exts[ext_idx])
          THEN /\ attempted' = Append(attempted, code)
               /\ \E raised \in BOOLEAN :
                     IF raised
                     THEN UNCHANGED arrays /\ nextExt
                     ELSE arrays' = Append(arrays, ArrayName(code)) /\ nextId
          ELSE UNCHANGED << arrays, attempted >> /\ nextExt
    /\ pngUnchanged

\* Lines 85-113: sys.exit(1) when nothing was converted, else the header is
\* written and main() returns.
PngEmit ==
    /\ pc = "png_emit"
    /\ IF arrays = << >>
       THEN exit_status' = 1 /\ UNCHANGED header
       ELSE /\ header' = HeaderOf(arrays)
            /\ exit_status' = 0
    /\ pc' = "done"
    /\ UNCHANGED << svg_dir_exists, files, case_sensitive, count_arg, max_faces_arg,
                    target_count, max_faces, available, selected, seen, face_count,
                    order, idx, emoji_codes, arrays, attempted, pngVars, rasterVars >>

NextPng == PngStep \/ PngEmit

SpecPng == InitPng /\ [][NextPng]_vars

---------------------------------------------------------------------------
(* RGB helpers, centering pass and quantizer                               *)

\* Bitwise operators on non-negative integers (Python's &, |, <<, >>).
RECURSIVE BitAnd(_, _)
BitAnd(a, b) ==
    IF a = 0 \/ b = 0 THEN 0
    ELSE (a % 2) * (b % 2) + 2 * BitAnd(a \div 2, b \div 2)

RECURSIVE BitOr(_, _)
BitOr(a, b) ==
    IF a = 0 THEN b
    ELSE IF b = 0 THEN a
    ELSE (IF a % 2 = 1 \/ b % 2 = 1 THEN 1 ELSE 0) + 2 * BitOr(a \div 2, b \div 2)

RECURSIVE Pow2(_)
Pow2(n) == IF n = 0 THEN 1 ELSE 2 * Pow2(n - 1)

Shl(a, n) == a * Pow2(n)
Shr(a, n) == a \div Pow2(n)

\* rgb888_to_rgb565 with the green field shifted as far as the red one.
rgb888_to_rgb565_greenShift(r, g, b) ==
    BitOr(BitOr(Shl(BitAnd(r, 248), 8), Shl(BitAnd(g, 252), 8)), Shr(b, 3))

\* ((r & 0xF8) << 8) | ((g & 0xFC) << 3) | (b >> 3)
rgb888_to_rgb565(r, g, b) ==
    BitOr(BitOr(Shl(BitAnd(r, 248), 8), Shl(BitAnd(g, 252), 3)), Shr(b, 3))

\* A colour is << r, g, b >>; an image is its size and its pixels by (x, y).
background_key == << 255, 0, 255 >>
outline_boost_rgb == << 40, 40, 40 >>
outline_boost_threshold == 10

Pixels(w, h) == (0..(w - 1)) \X (0..(h - 1))

\* Image.new("RGB", (w, h), colour)
NewImage(w, h, colour) == [w |-> w, h |-> h, px |-> [p \in Pixels(w, h) |-> colour]]

SetMin(S) == CHOOSE m \in S : \A n \in S : m <= n
SetMax(S) == CHOOSE m \in S : \A n \in S : m >= n

\* The scan of lines 435-448: the tight bounding box of the pixels that differ
\* from the background, with the scan's start values when there is none.
VisiblePixels(im, bg) == {p \in Pixels(im.w, im.h) : im.px[p] # bg}
BBox(im, bg) ==
    LET vis == VisiblePixels(im, bg)
        xs == {p[1] : p \in vis}
        ys == {p[2] : p \in vis}
    IN IF vis = {}
       THEN [min_x |-> im.w, min_y |-> im.h, max_x |-> -1, max_y |-> -1]
       ELSE [min_x |-> SetMin(xs), min_y |-> SetMin(ys),
             max_x |-> SetMax(xs), max_y |-> SetMax(ys)]

\* int(round(k / 2.0)) rounding a half away from zero.
RoundHalf_awayFromZero(k) ==
    IF k % 2 = 0 THEN k \div 2
    ELSE IF k > 0 THEN (k \div 2) + 1 ELSE k \div 2

\* int(round(k / 2.0)): Python rounds a half to the even neighbour.
RoundHalf(k) ==
    LET f == k \div 2
    IN IF k % 2 = 0 THEN f
       ELSE IF f % 2 = 0 THEN f ELSE f + 1

\* Twice the canvas centre, taken as n / 2.0.
CanvasCentre2_offByHalf(n) == n

\* Twice the canvas centre (n - 1) / 2.0 of lines 456-457.
CanvasCentre2(n) == n - 1

\* centered.paste(img, (dx, dy)) on a fresh background canvas: PIL clips.
Paste(im, dx, dy, bg) ==
    [w |-> im.w, h |-> im.h,
     px |-> [p \in Pixels(im.w, im.h) |->
                LET q == << p[1] - dx, p[2] - dy >>
                IN IF q \in Pixels(im.w, im.h) THEN im.px[q] ELSE bg]]

\* The offset taken from the canvas centre to the box centre, the wrong way round.
CenterOffset_signFlipped(im, bg) ==
    LET b == BBox(im, bg)
    IN [dx |-> RoundHalf((b.min_x + b.max_x) - CanvasCentre2(im.w)),
        dy |-> RoundHalf((b.min_y + b.max_y) - CanvasCentre2(im.h))]

\* The offset of lines 454-460; the differences of halves are exact in floating
\* point, so they are computed on the doubled values.
CenterOffset(im, bg) ==
    LET b == BBox(im, bg)
    IN [dx |-> RoundHalf(CanvasCentre2(im.w) - (b.min_x + b.max_x)),
        dy |-> RoundHalf(CanvasCentre2(im.h) - (b.min_y + b.max_y))]

center_by_visible_pixels(im, bg) ==
    LET b == BBox(im, bg)
        o == CenterOffset(im, bg)
    IN IF b.max_x < b.min_x \/ b.max_y < b.min_y THEN im
       ELSE Paste(im, o.dx, o.dy, bg)

\* The quantizer's value for one pixel, testing the threshold with < instead of <=.
QuantizePixel_strictThreshold(c, bg, threshold, boost) ==
    IF c = bg THEN 0
    ELSE IF c[1] < threshold /\ c[2] < threshold /\ c[3] < threshold
    THEN rgb888_to_rgb565(boost[1], boost[2], boost[3])
    ELSE rgb888_to_rgb565(c[1], c[2], c[3])

\* The quantizer's value for one pixel without the lift of dark pixels.
QuantizePixel_noBoost(c, bg, threshold, boost) ==
    IF c = bg THEN 0 ELSE rgb888_to_rgb565(c[1], c[2], c[3])

\* Lines 485-491: the value appended for one pixel.
QuantizePixel(c, bg, threshold, boost) ==
    IF c = bg THEN 0
    ELSE IF c[1] <= threshold /\ c[2] <= threshold /\ c[3] <= threshold
    THEN rgb888_to_rgb565(boost[1], boost[2], boost[3])
    ELSE rgb888_to_rgb565(c[1], c[2], c[3])

\* pil_to_rgb565_array scanning x in the outer loop and y in the inner one.
pil_to_rgb565_array_columnMajor(im, bg, threshold, boost) ==
    [i \in 1..(im.w * im.h) |->
        QuantizePixel(im.px[<< (i - 1) \div im.h, (i - 1) % im.h >>], bg, threshold, boost)]

\* pil_to_rgb565_array: for y in range(h): for x in range(w): append.
pil_to_rgb565_array(im, bg, threshold, boost) ==
    [i \in 1..(im.w * im.h) |->
        QuantizePixel(im.px[<< (i - 1) % im.w, (i - 1) \div im.w >>], bg, threshold, boost)]

---------------------------------------------------------------------------
(* Properties of main(): exit status, conversion loop, selection           *)

Min(a, b) == IF a <= b THEN a ELSE b
NoDuplicates(s) == \A i, j \in 1..Len(s) : i # j => s[i] # s[j]
Range(s) == {s[i] : i \in 1..Len(s)}
FaceCount(s) == Cardinality({i \in 1..Len(s) : _is_face_like(s[i])})

\* emoji_codes has been computed (lines 581 onwards have run).
Sliced == pc \in {"convert", "emit"} \/ (pc = "done" /\ svg_dir_exists)

\* C1 (as claimed): when the converter has ended, its exit status is non-zero
\* exactly if the source directory does not exist or no asset was converted
\* (arrays is empty), and zero otherwise.
C1_ExitStatusAsClaimed ==
    pc = "done" => ((exit_status # 0) <=> (~svg_dir_exists \/ arrays = << >>))

\* What convert_emojis_pure.py does instead: the status is non-zero exactly if the
\* directory is missing or nothing was selected; failed conversions never count.
C1_ExitStatusOfCode ==
    pc = "done" => ((exit_status # 0) <=> (~svg_dir_exists \/ emoji_codes = << >>))

\* C2 (as claimed), for the loop of convert_pngs_to_array.py: no identifier is
\* attempted more than once (a failed item is not retried).
C2_NoRetryAsClaimed == NoDuplicates(attempted)

RECURSIVE IsSubsequence(_, _)
IsSubsequence(s, t) ==
    IF s = << >> THEN TRUE
    ELSE IF t = << >> THEN FALSE
    ELSE IF Head(s) = Head(t) THEN IsSubsequence(Tail(s), Tail(t))
    ELSE IsSubsequence(s, Tail(t))

\* C2 for the loop of convert_emojis_pure.py: the identifiers attempted so far are
\* the first ones of emoji_codes in order, arrays names a subsequence of them
\* without repetition, every identifier has been attempted exactly once when the
\* header is written, and the header's emoji_arrays length and NUM_EMOJIS are the
\* number of arrays.
C2_SvgLoop ==
    /\ attempted = SubSeq(emoji_codes, 1, Len(attempted))
    /\ pc = "convert" => Len(attempted) = idx - 1
    /\ IsSubsequence(arrays, [i \in 1..Len(attempted) |-> ArrayName(attempted[i])])
    /\ NoDuplicates(arrays)
    /\ pc = "emit" => attempted = emoji_codes
    /\ header.written =>
          /\ attempted = emoji_codes
          /\ header.names = arrays
          /\ header.emoji_arrays_len = Len(arrays)
          /\ header.NUM_EMOJIS = Len(arrays)

\* A file stem is a valid identifier: hyphen-joined, non-empty hexadecimal segments.
ValidCode(c) ==
    /\ c # << >>
    /\ c[1] # "-" /\ c[Len(c)] # "-"
    /\ \A i \in 1..Len(c) : c[i] = "-" \/ HexVal(c[i]) >= 0
    /\ \A i \in 1..(Len(c) - 1) : ~(c[i] = "-" /\ c[i + 1] = "-")

\* The identifiers the selection can take: every non-face code add() and the
\* auto-fill filter accept, and at most max_faces face-like ones.
SelectableCount ==
    Cardinality({c \in available : ~_is_face_like(c) /\
                    (c \in Range(FUN_SEED) \/ _is_reasonable_autofill(c))})
    + Min(max_faces, Cardinality({c \in available : _is_face_like(c)}))

\* C3 (as claimed): whenever at least target_count valid identifiers are
\* available, emoji_codes has exactly target_count entries, none twice.
C3_ExactCountAsClaimed ==
    (Sliced /\ Cardinality({c \in available : ValidCode(c)}) >= target_count)
        => (Len(emoji_codes) = target_count /\ NoDuplicates(emoji_codes))

\* C3 (amended): whenever at least target_count identifiers are selectable under
\* the face cap and the auto-fill filter, emoji_codes has exactly target_count
\* entries, none twice.
C3_ExactCountOfSelectable ==
    (Sliced /\ SelectableCount >= target_count)
        => (Len(emoji_codes) = target_count /\ NoDuplicates(emoji_codes))

\* C3 witness: a full selection that needed the auto-fill phase and met the cap.
C3_Witness ==
    /\ Sliced /\ SelectableCount >= target_count
    /\ target_count = MaxCount /\ Len(emoji_codes) = target_count
    /\ order # << >>
    /\ max_faces >= 1 /\ face_count = max_faces
    /\ \E c \in available : _is_face_like(c) /\ c \notin Range(selected)

\* C4: in every state of the selection and after it, face_count is the number of
\* face-like identifiers in selected and is at most max_faces, every selected
\* identifier is available, and emoji_codes holds at most max_faces face-like ones.
C4_FaceCap ==
    /\ face_count = FaceCount(selected)
    /\ face_count <= max_faces
    /\ Range(selected) \subseteq available
    /\ FaceCount(emoji_codes) <= max_faces

\* C4 witness: the selection has ended with the cap met while a further face-like
\* identifier was available and stayed out.
C4_Witness ==
    /\ pc = "slice"
    /\ max_faces >= 1 /\ face_count = max_faces
    /\ Len(selected) < target_count
    /\ \E c \in available : _is_face_like(c) /\ c \notin Range(selected)

---------------------------------------------------------------------------
(* The centering pass and the quantizer applied to small canvases          *)

\* Bounds of the model: canvas sizes and the number of non-background pixels.
MaxW == 4
MaxH == 3
MaxVisible == 2

\* Colours a rendered canvas may hold besides the background.
Palette == { << 255, 0, 0 >>, << 0, 0, 0 >>, << 255, 255, 255 >> }

mainIdle ==
    /\ pc = "idle" /\ svg_dir_exists = FALSE /\ files = {} /\ case_sensitive = TRUE
    /\ count_arg = 0 /\ max_faces_arg = 0 /\ target_count = 0 /\ max_faces = 0
    /\ available = {} /\ selected = << >> /\ seen = {} /\ face_count = 0
    /\ order = << >> /\ idx = 0 /\ emoji_codes = << >> /\ arrays = << >>
    /\ attempted = << >> /\ exit_status = "none" /\ header = NoHeader

\* A background-only canvas of any size up to MaxW x MaxH; the drawing calls of the
\* rasterizer then set pixels on it.
InitCanvas ==
    /\ stage = "canvas"
    /\ drawing = "none"
    /\ \E w \in 1..MaxW, h \in 1..MaxH : img = NewImage(w, h, background_key)
    /\ centered = "none" /\ recentered = "none" /\ out = "none"
    /\ mainIdle /\ pngIdle

\* A drawing call sets one more pixel of the canvas to a visible colour.
Paint ==
    /\ stage = "canvas"
    /\ Cardinality(VisiblePixels(img, background_key)) < MaxVisible
    /\ \E p \in Pixels(img.w, img.h), c \in Palette :
          /\ img.px[p] = background_key
          /\ img' = [img EXCEPT !.px[p] = c]
    /\ UNCHANGED << drawing, centered, recentered, out, stage, mainVars, pngVars >>

\* Line 596: img = center_by_visible_pixels(img)
CenterStep ==
    /\ stage \in {"canvas", "rendered"}
    /\ centered' = center_by_visible_pixels(img, background_key)
    /\ stage' = "centered"
    /\ UNCHANGED << drawing, img, recentered, out, mainVars, pngVars >>

\* The centering pass applied to its own result.
RecenterStep ==
    /\ stage = "centered"
    /\ recentered' = center_by_visible_pixels(centered, background_key)
    /\ stage' = "recentered"
    /\ UNCHANGED << drawing, img, centered, out, mainVars, pngVars >>

\* pil_to_rgb565_array applied to the canvas as it stands.
QuantizeCanvas ==
    /\ stage = "canvas"
    /\ out' = pil_to_rgb565_array(img, background_key, outline_boost_threshold,
                                  outline_boost_rgb)
    /\ stage' = "canvas_quantized"
    /\ UNCHANGED << drawing, img, centered, recentered, mainVars, pngVars >>

NextCanvas == Paint \/ CenterStep \/ RecenterStep \/ QuantizeCanvas

SpecCanvas == InitCanvas /\ [][NextCanvas]_vars

Abs(n) == IF n < 0 THEN -n ELSE n

\* C5: the quantizer's output has w*h values, and the value at index y*w + x is
\* 0x0000 for every pixel (x, y) that has the sentinel background colour.
C5_SentinelIsZero ==
    stage = "canvas_quantized" =>
        /\ Len(out) = img.w * img.h
        /\ \A p \in Pixels(img.w, img.h) :
              img.px[p] = background_key => out[p[2] * img.w + p[1] + 1] = 0

\* C5 witness: a quantized non-square canvas with sentinel and visible pixels.
C5_Witness ==
    /\ stage = "canvas_quantized"
    /\ img.w > img.h /\ img.h >= 2
    /\ Cardinality(VisiblePixels(img, background_key)) = MaxVisible
    /\ \E p \in Pixels(img.w, img.h) : img.px[p] = background_key
    /\ \E i \in 1..Len(out) : out[i] # 0

\* C8: centering an already centred canvas changes no pixel, and the offset
\* computed on it is (0, 0).
C8_CenteringIdempotent ==
    stage = "recentered" =>
        /\ recentered = centered
        /\ VisiblePixels(centered, background_key) # {} =>
              CenterOffset(centered, background_key) = [dx |-> 0, dy |-> 0]

\* C8 witness: a canvas the first pass moved, whose offset was a half that had to
\* be rounded, has been centred twice.
C8_Witness ==
    /\ stage = "recentered"
    /\ centered # img
    /\ LET b == BBox(img, background_key)
       IN /\ (CanvasCentre2(img.w) - (b.min_x + b.max_x)) % 2 = 1
          /\ (CanvasCentre2(img.h) - (b.min_y + b.max_y)) % 2 = 1

\* C9: after centering, the centre of the bounding box of the visible pixels is
\* within half a pixel of the canvas centre ((w-1)/2, (h-1)/2) on each axis
\* (compared on doubled values); a canvas with no visible pixel is unchanged.
C9_CenterAligned ==
    stage = "centered" =>
        IF VisiblePixels(img, background_key) = {}
        THEN centered = img
        ELSE LET b == BBox(centered, background_key)
             IN /\ VisiblePixels(centered, background_key) # {}
                /\ Abs((b.min_x + b.max_x) - (centered.w - 1)) <= 1
                /\ Abs((b.min_y + b.max_y) - (centered.h - 1)) <= 1

\* C9 witness: a canvas with off-centre content has been centred.
C9_Witness ==
    /\ stage = "centered"
    /\ VisiblePixels(img, background_key) # {}
    /\ centered # img
    /\ LET b == BBox(img, background_key)
       IN Abs((b.min_x + b.max_x) - (img.w - 1)) >= 3

\* C14: the centering pass clips nothing: the centred canvas is the input's
\* visible pixels moved by one offset (dx, dy), each inside the canvas with its
\* colour, and it has as many visible pixels as the input.
C14_PureTranslation ==
    (stage = "centered" /\ VisiblePixels(img, background_key) # {}) =>
        /\ Cardinality(VisiblePixels(centered, background_key))
              = Cardinality(VisiblePixels(img, background_key))
        /\ \E dx \in (-img.w)..img.w, dy \in (-img.h)..img.h :
              \A p \in VisiblePixels(img, background_key) :
                 /\ << p[1] + dx, p[2] + dy >> \in Pixels(img.w, img.h)
                 /\ centered.px[<< p[1] + dx, p[2] + dy >>] = img.px[p]

\* C14 witness: two pixels of different colours in a corner were moved on both axes.
C14_Witness ==
    /\ stage = "centered"
    /\ img.w = MaxW /\ img.h = MaxH
    /\ img.px[<< 0, 0 >>] = << 255, 0, 0 >>
    /\ img.px[<< 1, 0 >>] = << 255, 255, 255 >>
    /\ centered.px[<< 0, 0 >>] = background_key
    /\ Cardinality(VisiblePixels(centered, background_key)) = 2

---------------------------------------------------------------------------
(* The encoder and the quantizer applied to single pixels                  *)

\* The pixel colours tried: every value 0..255 of each channel beside sampled
\* values of the two others, and every colour around the darkness threshold.
ChannelSamples == {0, 7, 8, 10, 11, 255}
PixelInputs ==
    UNION { {<< v, s, t >>, << s, v, t >>, << s, t, v >>} :
                << v, s, t >> \in (0..255) \X ChannelSamples \X ChannelSamples }
    \cup ((0..11) \X (0..11) \X (0..11))
    \cup { background_key, outline_boost_rgb }

InitPixel ==
    /\ stage = "canvas"
    /\ drawing = "none"
    /\ \E c \in PixelInputs : img = NewImage(1, 1, c)
    /\ centered = "none" /\ recentered = "none" /\ out = "none"
    /\ mainIdle /\ pngIdle

\* convert_pngs_to_array.py, png_to_rgb565_array: the loop over the pixels of the
\* resized image, each encoded as it is.
png_to_rgb565_array(im) ==
    [i \in 1..(im.w * im.h) |->
        LET c == im.px[<< (i - 1) % im.w, (i - 1) \div im.w >>]
        IN rgb888_to_rgb565(c[1], c[2], c[3])]

EncodePng ==
    /\ stage = "canvas"
    /\ out' = png_to_rgb565_array(img)
    /\ stage' = "png_encoded"
    /\ UNCHANGED << drawing, img, centered, recentered, mainVars, pngVars >>

NextPixel == QuantizeCanvas \/ EncodePng

SpecPixel == InitPixel /\ [][NextPixel]_vars

\* The 5/6/5 packing written with division and remainder.
Packed565(c) == (c[1] \div 8) * 2048 + (c[2] \div 4) * 32 + (c[3] \div 8)

\* C6: a non-sentinel pixel whose channels are all <= 10 is quantized to 0x2945,
\* the encoding of (40, 40, 40); a non-sentinel pixel with a channel above 10 is
\* encoded from its own channels.
C6_DarkBoost ==
    stage = "canvas_quantized" =>
        \A p \in Pixels(img.w, img.h) :
            LET c == img.px[p]
                v == out[p[2] * img.w + p[1] + 1]
            IN c # background_key =>
                  IF c[1] <= 10 /\ c[2] <= 10 /\ c[3] <= 10
                  THEN v = 10565
                  ELSE v = Packed565(c)

\* C6 witness: a pixel with every channel exactly at the threshold was quantized.
C6_Witness ==
    /\ stage = "canvas_quantized"
    /\ img.px[<< 0, 0 >>] = << 10, 10, 10 >>
    /\ out = << 10565 >>

\* C7: the encoded value v is a 16-bit value, and decoding its three bit fields
\* gives each channel with its low 3, 2 and 3 bits cleared.
C7_RoundTrip ==
    stage = "png_encoded" =>
        LET c == img.px[<< 0, 0 >>]
            v == out[1]
            R == Shl(Shr(v, 11), 3)
            G == Shl(BitAnd(Shr(v, 5), 63), 2)
            B == Shl(BitAnd(v, 31), 3)
        IN /\ v \in 0..65535
           /\ R = c[1] - (c[1] % 8) /\ c[1] - R \in 0..7
           /\ G = c[2] - (c[2] % 4) /\ c[2] - G \in 0..3
           /\ B = c[3] - (c[3] % 8) /\ c[3] - B \in 0..7

\* C7 witness: a colour with low bits set in every channel was encoded.
C7_Witness ==
    /\ stage = "png_encoded"
    /\ img.px[<< 0, 0 >>] = << 255, 7, 255 >>
    /\ out = << 63551 >>

\* C13: the quantizer emits 0x0000 for a pixel if and only if the pixel has the
\* sentinel background colour.
C13_ZeroOnlyForSentinel ==
    stage = "canvas_quantized" =>
        \A p \in Pixels(img.w, img.h) :
            (out[p[2] * img.w + p[1] + 1] = 0) <=> (img.px[p] = background_key)

\* C13 witness: a pure black pixel was quantized to a non-zero value.
C13_Witness ==
    /\ stage = "canvas_quantized"
    /\ img.px[<< 0, 0 >>] = << 0, 0, 0 >>
    /\ out[1] # 0

---------------------------------------------------------------------------
(* The rasterizer, and the pipeline render -> center -> quantize           *)

\* --size, default 64
size == 64

\* Bound of the model: the largest width and height of a drawing's bounding box.
MaxDim == 3

\* A reportlab colour: none, or channels that are floats 0.0 / 1.0 ("float") or
\* plain integers ("int").
NoColor == [kind |-> "none", red |-> 0, green |-> 0, blue |-> 0]
FloatColor(r, g, b) == [kind |-> "float", red |-> r, green |-> g, blue |-> b]

\* color_to_rgb for a colour that has red/green/blue: << >> stands for None. A
\* float red in [0, 1] scales the three channels by 255, anything else is taken
\* as integers.
color_to_rgb(color) ==
    IF color.kind = "none" THEN << >>
    ELSE IF color.kind = "float" /\ 0 <= color.red /\ color.red <= 1
    THEN << 255 * color.red, 255 * color.green, 255 * color.blue >>
    ELSE << color.red, color.green, color.blue >>

\* Lines 279-292 for a bounding box with integer corners: scale is size / M with
\* M the larger of dw and dh, and the offsets are size * (M - dw) / (2 * M) and
\* size * (M - dh) / (2 * M). Coordinates are kept as numerators over 2 * M.
Transform(d, sz) ==
    LET dw == d.bounds[3] - d.bounds[1]
        dh == d.bounds[4] - d.bounds[2]
        M == Max(dw, dh)
    IN [min_x |-> d.bounds[1], min_y |-> d.bounds[2], den |-> 2 * M,
        off_x |-> sz * (M - dw), off_y |-> sz * (M - dh), scale2 |-> 2 * sz]

\* tx() adding x * scale without subtracting min_x.
TxNum_noOrigin(T, x) == T.off_x + x * T.scale2

\* tx(x) = offset_x + (x - min_x) * scale, as a numerator over T.den
TxNum(T, x) == T.off_x + (x - T.min_x) * T.scale2

\* ty(y) = offset_y + (y - min_y) * scale (no Y flip), as a numerator over T.den
TyNum(T, y) == T.off_y + (y - T.min_y) * T.scale2

\* The C cast (int) that ImageDraw applies to a float coordinate: truncation
\* toward zero.
Trunc(num, den) == IF num >= 0 THEN num \div den ELSE -((-num) \div den)

\* draw.rectangle([x1, y1, x2, y2], fill=colour): both corners inclusive, clipped
\* to the canvas.
DrawRectFill(im, x0, y0, x1, y1, colour) ==
    [im EXCEPT !.px = [p \in Pixels(im.w, im.h) |->
        IF x0 <= p[1] /\ p[1] <= x1 /\ y0 <= p[2] /\ p[2] <= y1
        THEN colour ELSE im.px[p]]]

\* draw.rectangle([x1, y1, x2, y2], outline=colour, width=wd): the band of wd
\* pixels along the inside of the rectangle's edges.
DrawRectOutline(im, x0, y0, x1, y1, colour, wd) ==
    [im EXCEPT !.px = [p \in Pixels(im.w, im.h) |->
        IF /\ x0 <= p[1] /\ p[1] <= x1 /\ y0 <= p[2] /\ p[2] <= y1
           /\ (p[1] - x0 < wd \/ x1 - p[1] < wd \/ p[2] - y0 < wd \/ y1 - p[2] < wd)
        THEN colour ELSE im.px[p]]]

\* getattr(el, name, None) for a colour attribute the element may lack.
ColourOf(el, name) == IF name \in el.absent THEN NoColor ELSE el[name]

\* getattr(el, "strokeWidth", default)
StrokeWidthOf(el, default) ==
    IF "strokeWidth" \in el.absent THEN default ELSE el.strokeWidth

\* render_element for a Rect (lines 312-321).
RenderRect(im, el, T) ==
    LET fill == color_to_rgb(ColourOf(el, "fillColor"))
        stroke == color_to_rgb(ColourOf(el, "strokeColor"))
        x1 == Trunc(TxNum(T, el.x), T.den)
        y1 == Trunc(TyNum(T, el.y), T.den)
        x2 == Trunc(TxNum(T, el.x + el.width), T.den)
        y2 == Trunc(TyNum(T, el.y + el.height), T.den)
        filled == IF fill # << >> THEN DrawRectFill(im, x1, y1, x2, y2, fill) ELSE im
    IN IF stroke # << >> /\ StrokeWidthOf(el, 0) > 0
       THEN DrawRectOutline(filled, x1, y1, x2, y2, stroke, Max(1, StrokeWidthOf(el, 0)))
       ELSE filled

\* draw.line([(x0, y0), (x1, y1)], fill=colour, width=1) for a horizontal or
\* vertical segment: both end points inclusive, clipped to the canvas.
DrawLine(im, x0, y0, x1, y1, colour) ==
    [im EXCEPT !.px = [p \in Pixels(im.w, im.h) |->
        IF \/ (y0 = y1 /\ p[2] = y0 /\ Min(x0, x1) <= p[1] /\ p[1] <= Max(x0, x1))
           \/ (x0 = x1 /\ p[1] = x0 /\ Min(y0, y1) <= p[2] /\ p[2] <= Max(y0, y1))
        THEN colour ELSE im.px[p]]]

\* Line 351: stroke = color_to_rgb(getattr(el, "strokeColor", None)) or (255, 255, 255)
LineStroke(el) ==
    LET stroke == color_to_rgb(ColourOf(el, "strokeColor"))
    IN IF stroke = << >> THEN << 255, 255, 255 >> ELSE stroke

\* render_element for a Line (lines 350-354), of width 1.
RenderLine(im, el, T) ==
    DrawLine(im, Trunc(TxNum(T, el.x1), T.den), Trunc(TyNum(T, el.y1), T.den),
                 Trunc(TxNum(T, el.x2), T.den), Trunc(TyNum(T, el.y2), T.den),
                 LineStroke(el))

\* render_element (lines 301-413): groups recurse into their children, a Rect and
\* a Line are drawn; nothing catches what a primitive raises.
RECURSIVE RenderAll(_, _, _)
RenderElement(im, el, T) ==
    IF el.kind = "Group" THEN RenderAll(im, el.contents, T)
    ELSE IF el.kind = "Rect" THEN RenderRect(im, el, T)
    ELSE IF el.kind = "Line" THEN RenderLine(im, el, T)
    ELSE im

\* Lines 307-308 and 415-417: the children are rendered in order.
RenderAll(im, els, T) ==
    IF els = << >> THEN im
    ELSE RenderAll(RenderElement(im, Head(els), T), Tail(els), T)

\* Reading a numeric attribute the primitive lacks raises (el.x at line 315,
\* el.x1 at line 353).
PrimitiveRaises(el) ==
    \/ el.kind = "Rect" /\ el.absent \cap {"x", "y", "width", "height"} # {}
    \/ el.kind = "Line" /\ el.absent \cap {"x1", "y1", "x2", "y2"} # {}

\* Whether render_element(el) raises: what a primitive raises propagates through
\* every enclosing group.
RECURSIVE AnyRaises(_)
ElementRaises(el) ==
    IF el.kind = "Group" THEN AnyRaises(el.contents) ELSE PrimitiveRaises(el)

AnyRaises(els) == \E i \in 1..Len(els) : ElementRaises(els[i])

render_drawing_to_pil(d, sz, bg) ==
    RenderAll(NewImage(sz, sz, bg), d.contents, Transform(d, sz))

Rect(x, y, width, height, fillColor, strokeColor, strokeWidth) ==
    [kind |-> "Rect", x |-> x, y |-> y, width |-> width, height |-> height,
     fillColor |-> fillColor, strokeColor |-> strokeColor, strokeWidth |-> strokeWidth,
     absent |-> {}]

Line(x1, y1, x2, y2, strokeColor, strokeWidth) ==
    [kind |-> "Line", x1 |-> x1, y1 |-> y1, x2 |-> x2, y2 |-> y2,
     strokeColor |-> strokeColor, strokeWidth |-> strokeWidth, absent |-> {}]

Group(contents) == [kind |-> "Group", contents |-> contents]

\* The primitive el without the attribute attr.
Lacking(el, attr) == [el EXCEPT !.absent = @ \cup {attr}]

\* The drawings tried: one rectangle anchored at the corner of the bounding box,
\* filled pure red or not filled, with a black stroke of width 1 or none.
RectDrawings ==
    { [bounds |-> << m, m, m + dw, m + dh >>,
       contents |-> << Rect(m, m, rw, rh, fill, stroke, 1) >>] :
         << m, dw, dh, rw, rh, fill, stroke >> \in
            { t \in (0..1) \X (1..MaxDim) \X (1..MaxDim) \X (1..MaxDim) \X (1..MaxDim)
                    \X {FloatColor(1, 0, 0), NoColor} \X {FloatColor(0, 0, 0), NoColor} :
                t[4] <= t[2] /\ t[5] <= t[3] } }

\* The elements of the drawings with several primitives, in a 2 x 2 bounding box:
\* two rectangles, a horizontal line with and without stroke colour, a rectangle
\* without colours, a rectangle that lacks x, a line that lacks x2, and groups.
Elements ==
    LET red == Rect(0, 0, 1, 1, FloatColor(1, 0, 0), NoColor, 1)
        green == Rect(1, 1, 1, 1, FloatColor(0, 1, 0), NoColor, 1)
        blank == Rect(0, 0, 2, 2, NoColor, NoColor, 1)
        noX == Lacking(Rect(0, 0, 2, 2, FloatColor(0, 0, 1), NoColor, 1), "x")
        stroked == Line(0, 1, 2, 1, FloatColor(0, 0, 0), 1)
        unstroked == Line(0, 1, 2, 1, NoColor, 1)
        noX2 == Lacking(stroked, "x2")
    IN { red, green, blank, noX, stroked, unstroked, noX2,
         Group(<< red, noX >>), Group(<< unstroked >>), Group(<< Group(<< green >>) >>) }

\* Drawings of one or two of these elements, and of three with a failing
\* primitive in the middle.
MixedDrawings ==
    { [bounds |-> << 0, 0, 2, 2 >>, contents |-> c] :
         c \in { << e >> : e \in Elements }
               \cup { << e, f >> : << e, f >> \in Elements \X Elements }
               \cup { << t[1], t[2], t[3] >> :
                        t \in Elements \X { e \in Elements : ElementRaises(e) } \X Elements } }

Drawings == RectDrawings \cup MixedDrawings

InitPipe ==
    /\ stage = "drawing"
    /\ drawing \in Drawings
    /\ img = "none" /\ centered = "none" /\ recentered = "none" /\ out = "none"
    /\ mainIdle /\ pngIdle

\* Line 595: img = render_drawing_to_pil(drawing, size=size)
\* When a primitive raises, the exception leaves render_drawing_to_pil and the
\* except clause of lines 603-604 skips the asset.
RenderStep ==
    /\ stage = "drawing"
    /\ IF AnyRaises(drawing.contents)
       THEN stage' = "raised" /\ UNCHANGED img
       ELSE /\ img' = render_drawing_to_pil(drawing, size, background_key)
            /\ stage' = "rendered"
    /\ UNCHANGED << drawing, centered, recentered, out, mainVars, pngVars >>

\* Line 599: rgb565 = pil_to_rgb565_array(img), on the centred image
QuantizeStep ==
    /\ stage = "centered"
    /\ out' = pil_to_rgb565_array(centered, background_key, outline_boost_threshold,
                                  outline_boost_rgb)
    /\ stage' = "quantized"
    /\ UNCHANGED << drawing, img, centered, recentered, mainVars, pngVars >>

NextPipe == RenderStep \/ CenterStep \/ QuantizeStep

SpecPipe == InitPipe /\ [][NextPipe]_vars

\* The drawing is one rectangle filled pure red, without stroke, that spans the
\* whole declared bounding box.
RedRectSpanningBounds ==
    /\ Len(drawing.contents) = 1
    /\ LET el == drawing.contents[1]
       IN /\ el.kind = "Rect" /\ el.absent = {}
          /\ el.fillColor = FloatColor(1, 0, 0)
          /\ el.strokeColor = NoColor
          /\ << el.x, el.y, el.x + el.width, el.y + el.height >> = drawing.bounds

SquareBounds ==
    drawing.bounds[3] - drawing.bounds[1] = drawing.bounds[4] - drawing.bounds[2]

AllRed == Len(out) = 4096 /\ \A i \in 1..Len(out) : out[i] = 63488

\* C10 (as claimed): a red rectangle spanning the declared bounding box is
\* converted at size 64 to 4096 values, all 0xF800 and none 0x0000.
C10_AllRedAsClaimed == (stage = "quantized" /\ RedRectSpanningBounds) => AllRed

\* C10 (amended): the same for a bounding box as wide as it is high.
C10_AllRedWhenSquare ==
    (stage = "quantized" /\ RedRectSpanningBounds /\ SquareBounds) => AllRed

\* C10 witness: a square red rectangle whose box does not start at the origin has
\* gone through the pipeline.
C10_Witness ==
    /\ stage = "quantized" /\ RedRectSpanningBounds /\ SquareBounds
    /\ drawing.bounds[1] = 1 /\ drawing.bounds[3] = 3
    /\ AllRed

\* The element sequence with every failing primitive removed, inside groups too.
RECURSIVE Healthy(_)
Healthy(els) ==
    IF els = << >> THEN << >>
    ELSE LET el == Head(els)
         IN IF el.kind = "Group"
            THEN << Group(Healthy(el.contents)) >> \o Healthy(Tail(els))
            ELSE IF PrimitiveRaises(el) THEN Healthy(Tail(els))
            ELSE << el >> \o Healthy(Tail(els))

\* C11 as stated: when a primitive of the drawing fails, the rasterizer still
\* returns a canvas, which shows exactly the primitives that did not fail, and
\* the asset goes on to be centred, quantized and appended.
C11_FaultIsolationAsClaimed ==
    (stage # "drawing" /\ AnyRaises(drawing.contents)) =>
        /\ stage \in {"rendered", "centered", "quantized"}
        /\ stage = "rendered" =>
              img = RenderAll(NewImage(size, size, background_key),
                              Healthy(drawing.contents), Transform(drawing, size))

\* Whether no primitive of the sequence has a fill or a stroke colour.
RECURSIVE Colourless(_)
Colourless(els) ==
    \A i \in 1..Len(els) :
        IF els[i].kind = "Group" THEN Colourless(els[i].contents)
        ELSE /\ els[i].kind = "Rect" => color_to_rgb(ColourOf(els[i], "fillColor")) = << >>
             /\ color_to_rgb(ColourOf(els[i], "strokeColor")) = << >>

\* C12 as stated: a colour that is absent means that pass is not drawn, so a
\* drawing whose primitives have neither fill nor stroke colour leaves every
\* pixel of the canvas at the background colour.
C12_AbsentColourNoPassAsClaimed ==
    (stage = "rendered" /\ Colourless(drawing.contents)) =>
        img = NewImage(size, size, background_key)

====
